---- MODULE Spec2Model ----
(***************************************************************************)
(* Model of the cooperative task runtime of                                *)
(* guidellm/seed-documents/05-rust-async-runtime.rs: task lifecycle, the   *)
(* registry, global and local ready queues, the work-stealing worker loop, *)
(* the wakeup handles built by create_waker, cancel, and the hierarchical  *)
(* timer wheel.                                                            *)
(*                                                                         *)
(* Threads are the workers, a fixed set of API callers (spawn,             *)
(* spawn_delayed, cancel) and the holders of wakeup handles.  A step is one *)
(* access to a shared object (an atomic, a queue, a lock-protected slot)   *)
(* with the thread-local code around it.  Merged into one step: the load   *)
(* of the task state with the CAS that follows it (ClaimTask), the queue   *)
(* probes of one acquisition and, when they all fail, the bounded wait     *)
(* that ends with `*notified = false` (Acquire: the flag is read by the    *)
(* wait alone, which the 10 ms timeout ends in any case), and the registry *)
(* insert, the queue or wheel insert and the counter of one spawn call.    *)
(*                                                                         *)
(* Wall-clock time is the variable clock, in units of which one timer tick *)
(* lasts TickDur.  A call that holds the timer mutex reads one clock       *)
(* value for all its Instant::now() calls.                                 *)
(*                                                                         *)
(* Wakeup handles: the handle built by create_waker lives in the worker    *)
(* from the claim of the task to the end of the loop iteration; anybody    *)
(* may signal it by reference while it lives (this over-approximates the   *)
(* holders of a reference, which safe code keeps no longer than the poll). *)
(* Owned handles are obtained through clone only.                          *)
(*                                                                         *)
(* Task.priority and Task.created_at are written once and never read by    *)
(* the runtime (QueueEntry is not used by any queue), so they are not part *)
(* of the runtime state.                                                   *)
(***************************************************************************)
EXTENDS Integers, Sequences, FiniteSets, TLC

(* ---- bounds of the exploration ---- *)
NumWorkers == 2
MaxTasks == 2
NumClients == 1
MaxPolls == 2
MaxHandles == 1
MaxProbes == 7
MaxTime == 2
MaxDelay == 2
TickDur == 2
Size0 == 2
Size1 == 2
Size2 == 2
MaxTimeWheel == 8
MaxDelayWheel == 5
MaxTimeFar == 30
MaxLag == 5
MaxShutdowns == 2

Workers == 0 .. (NumWorkers - 1)
Tasks == 0 .. (MaxTasks - 1)
Clients == 1 .. NumClients
NoTask == 0 - 1
NoWorker == 0 - 1
WheelSizes == <<Size0, Size1, Size2>>
Levels == 1 .. Len(WheelSizes)

VARIABLES
    COUNTER,        \* TaskId::new's static counter
    state,          \* Task.state of every created task
    future,         \* Task.future: the computation slot, "Some" or "None"
    future_lock,    \* holder of the slot mutex, or NoWorker
    task_registry,  \* Runtime.task_registry (set of ids)
    reg_readers,    \* callers holding the registry's read lock
    global_queue,   \* Runtime.global_queue
    local_queue,    \* Worker.local_queue, per worker
    wheels,         \* TimerWheel.wheels[level][slot] = sequence of <<deadline, task>>
    current_tick,   \* TimerWheel.current_tick
    last_tick,      \* TimerWheel.last_tick
    clock,          \* wall-clock time (what Instant::now() returns)
    notified,       \* the boolean guarded by Runtime.condvar
    shutdown,       \* Runtime.shutdown
    stats,          \* RuntimeStats
    pc,             \* position of each worker in worker_loop
    cur,            \* the task a worker holds (local `task`)
    rng_state,      \* xorshift state of each worker (four 16-bit limbs)
    handles,        \* live wakeup handles
    signalling,     \* signals whose CAS succeeded and whose push is pending
    cpc,            \* position of each API caller
    cid,            \* the task id an API caller works on
    ret,            \* last value returned by cancel to each caller
    issued,         \* ids returned by a spawn call
    hist            \* history of the run (observations only, never read by actions);
                    \* hist.returned: what the advance() calls of the wheel test returned,
                    \* hist.far: the tasks it scheduled beyond the wheel's span,
                    \* hist.shutdowns: the shutdown() calls that returned,
                    \* hist.signals: the signals whose CAS succeeded, per task,
                    \* hist.raced: the tasks signalled from within their own poll,
                    \* hist.compared: the last comparison of two QueueEntry values

vars == <<COUNTER, state, future, future_lock, task_registry, reg_readers,
          global_queue, local_queue, wheels, current_tick, last_tick, clock,
          notified, shutdown, stats, pc, cur, rng_state, handles,
          signalling, cpc, cid, ret, issued, hist>>

TaskState == {"Pending", "Running", "Waiting", "Completed", "Cancelled"}

(* ---- AtomicTaskState ---- *)
\* faulty variant: a swap, which succeeds whatever the stored value is
CasAlwaysOk(st, t, current) == st[t] \in TaskState
\* compare_exchange succeeds iff the stored value is `current`
CasOk(st, t, current) == st[t] = current

(* ---- WorkStealingDeque ---- *)
\* faulty variant: the item is dropped
push_lost(q, item) == q
push_back(q, item) == Append(q, item)
\* pop_front / steal return the item and the remaining queue; callers test for empty
pop_front_item(q) == Head(q)
pop_front_rest(q) == Tail(q)
steal_item(q) == q[Len(q)]
steal_rest(q) == SubSeq(q, 1, Len(q) - 1)

(* ---- TimerWheel ---- *)
Size(level) == WheelSizes[level]

\* faulty variant: the slot is overwritten instead of extended
PushSlotReplace(w, level, slot, entry) ==
    [w EXCEPT ![level][slot + 1] = <<entry>>]
\* wheel[slot].push((deadline, task)); slots are 0-based in the code
PushSlot(w, level, slot, entry) ==
    [w EXCEPT ![level][slot + 1] = Append(@, entry)]

RECURSIVE FindLevelUndivided(_, _, _, _, _)
\* faulty variant: `remaining` is not divided from one level to the next
FindLevelUndivided(w, ct, level, remaining, entry) ==
    IF level > Len(WheelSizes)
    THEN PushSlot(w, Len(WheelSizes), Size(Len(WheelSizes)) - 1, entry)
    ELSE IF remaining < Size(level)
         THEN PushSlot(w, level, (ct + remaining) % Size(level), entry)
         ELSE FindLevelUndivided(w, ct, level + 1, remaining, entry)
RECURSIVE FindLevel(_, _, _, _, _)
\* the `for (level, wheel)` loop of schedule, and the clamp after it
FindLevel(w, ct, level, remaining, entry) ==
    IF level > Len(WheelSizes)
    THEN PushSlot(w, Len(WheelSizes), Size(Len(WheelSizes)) - 1, entry)
    ELSE IF remaining < Size(level)
         THEN PushSlot(w, level, (ct + remaining) % Size(level), entry)
         ELSE FindLevel(w, ct, level + 1, remaining \div Size(level), entry)

\* TimerWheel::schedule: the wheels after scheduling entry = <<deadline, task>>
schedule(w, ct, now, entry) ==
    IF entry[1] <= now
    THEN PushSlot(w, 1, ct % Size(1), entry)
    ELSE FindLevel(w, ct, 1, (entry[1] - now) \div TickDur, entry)

RECURSIVE ScheduleAll(_, _, _, _)
\* `for (deadline, task) in entries { self.schedule(deadline, task) }`
ScheduleAll(w, ct, now, entries) ==
    IF entries = <<>> THEN w
    ELSE ScheduleAll(schedule(w, ct, now, Head(entries)), ct, now, Tail(entries))

\* faulty variant: an entry counts as due one tick before its deadline
DueWithinTick(deadline, now) == deadline <= now + TickDur
\* `if deadline <= now`
Due(deadline, now) == deadline <= now

RECURSIVE Collect(_, _, _, _, _)
\* the `deadline <= now` split of a drained slot: <<wheels, ready>>
Collect(w, ct, now, entries, ready) ==
    IF entries = <<>> THEN <<w, ready>>
    ELSE LET e == Head(entries) IN
         IF Due(e[1], now)
         THEN Collect(w, ct, now, Tail(entries), Append(ready, e[2]))
         ELSE Collect(schedule(w, ct, now, e), ct, now, Tail(entries), ready)

RECURSIVE LevelLoop(_, _, _, _, _)
\* `for level in 0..self.wheels.len()` of one tick step: <<wheels, ready>>
LevelLoop(w, ct, now, level, ready) ==
    IF level > Len(WheelSizes) THEN <<w, ready>>
    ELSE LET slot == ct % Size(level)
             cascade == slot = 0 /\ level < Len(WheelSizes)
             next_slot == (ct \div Size(level)) % Size(level + 1)
             w1 == IF cascade
                   THEN ScheduleAll([w EXCEPT ![level + 1][next_slot + 1] = <<>>],
                                    ct, now, w[level + 1][next_slot + 1])
                   ELSE w
             res == Collect([w1 EXCEPT ![level][slot + 1] = <<>>], ct, now,
                            w1[level][slot + 1], ready)
         IN LevelLoop(res[1], ct, now, level + 1, res[2])

RECURSIVE advance(_, _, _, _, _)
\* TimerWheel::advance: [wheels, current_tick, last_tick, ready]
advance(w, ct, lt, now, ready) ==
    IF lt + TickDur <= now
    THEN LET res == LevelLoop(w, ct + 1, now, 1, ready)
         IN advance(res[1], ct + 1, lt + TickDur, now, res[2])
    ELSE [wheels |-> w, current_tick |-> ct, last_tick |-> lt, ready |-> ready]

\* the tasks held by the wheel, as a sequence (all levels, all slots)
RECURSIVE Flatten(_)
Flatten(ss) == IF ss = <<>> THEN <<>> ELSE Head(ss) \o Flatten(Tail(ss))
WheelEntries == Flatten([l \in Levels |-> Flatten(wheels[l])])

(* ---- xorshift of worker_loop ---- *)
\* A u64 is the tuple of its four 16-bit limbs, least significant first.
RECURSIVE XorBits(_, _, _)
\* bitwise xor of two numbers below 2^(i+1)
XorBits(a, b, i) ==
    IF i < 0 THEN 0
    ELSE (2 ^ i) * (((a \div (2 ^ i)) + (b \div (2 ^ i))) % 2) + XorBits(a, b, i - 1)
Xor(x, y) ==
    <<XorBits(x[1], y[1], 15), XorBits(x[2], y[2], 15),
      XorBits(x[3], y[3], 15), XorBits(x[4], y[4], 15)>>
\* x << k for 0 < k < 16, truncated to 64 bits
Shl(x, k) ==
    LET lo(v) == (v * (2 ^ k)) % 65536
        hi(v) == v \div (2 ^ (16 - k))
    IN <<lo(x[1]), lo(x[2]) + hi(x[1]), lo(x[3]) + hi(x[2]), lo(x[4]) + hi(x[3])>>
\* x >> 17
Shr17(x) ==
    <<(x[2] \div 2) + (x[3] % 2) * 32768, (x[3] \div 2) + (x[4] % 2) * 32768,
      x[4] \div 2, 0>>
\* rng_state ^= rng_state << 13; rng_state ^= rng_state >> 17; rng_state ^= rng_state << 5
\* (each intermediate word is bound by a quantifier, which makes it a value)
Xorshift(x) ==
    CHOOSE r \in {Xor(b, Shl(b, 5)) :
                    b \in {Xor(a, Shr17(a)) :
                             a \in {Xor(x0, Shl(x0, 13)) : x0 \in {x}}}} : TRUE
\* (rng_state as usize) % num_queues
Target(x, n) ==
    LET r == 65536 % n
    IN ((((((((x[4] % n) * r) + x[3]) % n) * r) + x[2]) % n) * r + x[1]) % n
\* worker_id as u64
Seed(w) == <<w % 65536, (w \div 65536) % 65536, 0, 0>>

RECURSIVE OrbitFrom(_, _, _)
\* <<x, Xorshift(x), Xorshift(Xorshift(x)), ...>>, k + 1 words
OrbitFrom(x, k, acc) ==
    IF k = 0 THEN Append(acc, x)
    ELSE CHOOSE r \in {OrbitFrom(y, k - 1, Append(acc, x)) : y \in {Xorshift(x)}} : TRUE
RECURSIVE Orbits(_, _)
Orbits(w, acc) ==
    IF w >= NumWorkers THEN acc
    ELSE Orbits(w + 1, Append(acc, OrbitFrom(Seed(w), MaxProbes, <<>>)))
\* Orbit[w + 1][k + 1] is the generator state of worker w after k steps
Orbit == Orbits(0, <<>>)
\* exploration stops a worker whose generator has made MaxProbes steps
RngExhausted(w) == \A k \in 1 .. MaxProbes : Orbit[w + 1][k] # rng_state[w]
\* Xorshift(x), looked up in the worker's orbit where x is one of its first words
XorshiftOf(w, x) ==
    IF \E k \in 1 .. MaxProbes : Orbit[w + 1][k] = x
    THEN Orbit[w + 1][(CHOOSE k \in 1 .. MaxProbes : Orbit[w + 1][k] = x) + 1]
    ELSE Xorshift(x)

(* ---- initial state: Runtime::new followed by start ---- *)
\* a runtime of n workers (config.num_workers)
NewRuntime(n) ==
    /\ COUNTER = 0
    /\ state = [t \in Tasks |-> "Absent"]
    /\ future = [t \in Tasks |-> "None"]
    /\ future_lock = [t \in Tasks |-> NoWorker]
    /\ task_registry = {}
    /\ reg_readers = {}
    /\ global_queue = <<>>
    /\ local_queue = [w \in 0 .. (n - 1) |-> <<>>]
    /\ wheels = [l \in Levels |-> [s \in 1 .. Size(l) |-> <<>>]]
    /\ current_tick = 0
    /\ last_tick = 0
    /\ clock = 0
    /\ notified = FALSE
    /\ shutdown = FALSE
    /\ stats = [tasks_spawned |-> 0, tasks_completed |-> 0, tasks_cancelled |-> 0,
                poll_count |-> 0, steal_count |-> 0, timer_fires |-> 0]
    /\ pc = [w \in 0 .. (n - 1) |-> "top"]
    /\ cur = [w \in 0 .. (n - 1) |-> NoTask]
    /\ rng_state = [w \in 0 .. (n - 1) |-> Seed(w)]
    /\ handles = {}
    /\ signalling = {}
    /\ cpc = [c \in Clients |-> "idle"]
    /\ cid = [c \in Clients |-> NoTask]
    /\ ret = [c \in Clients |-> "none"]
    /\ issued = {}
    /\ hist = [polls |-> [t \in Tasks |-> 0],
               cancel_true |-> [t \in Tasks |-> 0],
               stash_signalled |-> {},
               returned |-> <<>>,
               far |-> {},
               shutdowns |-> 0,
               signals |-> [t \in Tasks |-> 0],
               raced |-> {},
               compared |-> {}]
Init == NewRuntime(NumWorkers)
\* Runtime::new with num_workers == 1
InitSingle == NewRuntime(1)

\* the variables of the timer wheel, of the workers, of the callers
timer_vars == <<wheels, current_tick, last_tick>>
task_vars == <<COUNTER, state, future, future_lock>>
queue_vars == <<global_queue, local_queue>>
worker_vars == <<pc, cur, rng_state>>
caller_vars == <<cpc, cid, ret, issued, reg_readers>>
waker_vars == <<handles, signalling>>

(* ---- worker_loop ---- *)
\* `while !shutdown.load()` and the timer drain: advance(), timer_fires, push_back
LoopTop(w) ==
    /\ pc[w] = "top"
    /\ IF shutdown
       THEN /\ pc' = [pc EXCEPT ![w] = "exited"]
            /\ UNCHANGED <<timer_vars, stats, local_queue>>
       ELSE LET r == advance(wheels, current_tick, last_tick, clock, <<>>) IN
            /\ wheels' = r.wheels
            /\ current_tick' = r.current_tick
            /\ last_tick' = r.last_tick
            /\ stats' = [stats EXCEPT !.timer_fires = @ + Len(r.ready)]
            /\ local_queue' = [local_queue EXCEPT ![w] = @ \o r.ready]
            /\ pc' = [pc EXCEPT ![w] = "acquire"]
    /\ UNCHANGED <<task_vars, task_registry, global_queue, clock, notified, shutdown,
                   cur, rng_state, waker_vars, caller_vars, hist>>

\* `let num_queues = all_queues.len()`
num_queues(queues) == Cardinality(DOMAIN queues)
RECURSIVE StealLoopCounting(_, _, _, _)
\* faulty variant: steal_count is incremented for a round of probes that stole nothing
StealLoopCounting(w, queues, x, i) ==
    IF i >= num_queues(queues) THEN [rng |-> x, target |-> NoWorker, steals |-> 1]
    ELSE CHOOSE r \in
           {IF Target(rng, num_queues(queues)) # w
               /\ queues[Target(rng, num_queues(queues))] # <<>>
            THEN [rng |-> rng, target |-> Target(rng, num_queues(queues)), steals |-> 1]
            ELSE StealLoopCounting(w, queues, rng, i + 1) :
                rng \in {XorshiftOf(w, x)}} : TRUE
RECURSIVE StealLoop(_, _, _, _)
\* the steal closure: `for i in 0..num_queues` from index i with generator state x;
\* [rng, target, steals] where target is the victim whose steal() returned Some,
\* or NoWorker, and steals is what the closure adds to steal_count
StealLoop(w, queues, x, i) ==
    IF i >= num_queues(queues) THEN [rng |-> x, target |-> NoWorker, steals |-> 0]
    ELSE CHOOSE r \in
           {IF Target(rng, num_queues(queues)) # w
               /\ queues[Target(rng, num_queues(queues))] # <<>>
            THEN [rng |-> rng, target |-> Target(rng, num_queues(queues)), steals |-> 1]
            ELSE StealLoop(w, queues, rng, i + 1) : rng \in {XorshiftOf(w, x)}} : TRUE

\* `let task = local_queue.pop_front().or_else(global).or_else(steal)`; when all
\* three fail, the `None` arm: wait_timeout (skipped when notified or shut down,
\* else ended by a notification or by the 10 ms timeout), then `*notified = false`
Acquire(w) ==
    /\ pc[w] = "acquire"
    /\ IF local_queue[w] # <<>>
       THEN /\ cur' = [cur EXCEPT ![w] = pop_front_item(local_queue[w])]
            /\ local_queue' = [local_queue EXCEPT ![w] = pop_front_rest(@)]
            /\ pc' = [pc EXCEPT ![w] = "claim"]
            /\ UNCHANGED <<global_queue, rng_state, stats, notified>>
       ELSE IF global_queue # <<>>
       THEN /\ cur' = [cur EXCEPT ![w] = pop_front_item(global_queue)]
            /\ global_queue' = pop_front_rest(global_queue)
            /\ pc' = [pc EXCEPT ![w] = "claim"]
            /\ UNCHANGED <<local_queue, rng_state, stats, notified>>
       ELSE LET r == StealLoop(w, local_queue, rng_state[w], 0) IN
            /\ ~RngExhausted(w)
            /\ rng_state' = [rng_state EXCEPT ![w] = r.rng]
            /\ stats' = [stats EXCEPT !.steal_count = @ + r.steals]
            /\ UNCHANGED global_queue
            /\ IF r.target # NoWorker
               THEN /\ cur' = [cur EXCEPT ![w] = steal_item(local_queue[r.target])]
                    /\ local_queue' = [local_queue EXCEPT ![r.target] = steal_rest(@)]
                    /\ pc' = [pc EXCEPT ![w] = "claim"]
                    /\ UNCHANGED notified
               ELSE /\ pc' = [pc EXCEPT ![w] = "top"]
                    /\ notified' = FALSE
                    /\ UNCHANGED <<cur, local_queue>>
    /\ UNCHANGED <<task_vars, task_registry, timer_vars, clock, shutdown,
                   waker_vars, caller_vars, hist>>

\* faulty variant: store(Running) without the Cancelled check and without the CAS
ClaimTaskStore(w) ==
    /\ pc[w] = "claim"
    /\ state' = [state EXCEPT ![cur[w]] = "Running"]
    /\ pc' = [pc EXCEPT ![w] = "take"]
    /\ UNCHANGED <<COUNTER, future, future_lock, task_registry, queue_vars, timer_vars,
                   clock, notified, shutdown, stats, cur, rng_state, waker_vars,
                   caller_vars, hist>>
\* `if task.state.load() == Cancelled { continue; }` and
\* `compare_exchange(Pending, Running)`, `continue` when it fails.  The load is
\* merged into the CAS: Cancelled is never left, so a task the load saw Cancelled
\* fails the CAS as well, and both failures `continue`.
ClaimTask(w) ==
    /\ pc[w] = "claim"
    /\ IF state[cur[w]] # "Cancelled" /\ CasOk(state, cur[w], "Pending")
       THEN /\ state' = [state EXCEPT ![cur[w]] = "Running"]
            /\ pc' = [pc EXCEPT ![w] = "take"]
            /\ UNCHANGED cur
       ELSE /\ pc' = [pc EXCEPT ![w] = "top"]
            /\ cur' = [cur EXCEPT ![w] = NoTask]
            /\ UNCHANGED state
    /\ UNCHANGED <<COUNTER, future, future_lock, task_registry, queue_vars, timer_vars,
                   clock, notified, shutdown, stats, rng_state, waker_vars,
                   caller_vars, hist>>

\* the handle create_waker(task, local_queue) returns
WorkerHandle(w) ==
    [task |-> cur[w], queue |-> w, vtable |-> "vtable", owner |-> "worker"]

\* create_waker, task.future.lock(), future_guard.take(), poll_count
TakeFuture(w) ==
    /\ pc[w] = "take"
    /\ future_lock[cur[w]] = NoWorker
    /\ future_lock' = [future_lock EXCEPT ![cur[w]] = w]
    /\ handles' = handles \cup {WorkerHandle(w)}
    /\ IF future[cur[w]] = "Some"
       THEN /\ future' = [future EXCEPT ![cur[w]] = "None"]
            /\ stats' = [stats EXCEPT !.poll_count = @ + 1]
            /\ hist' = [hist EXCEPT !.polls[cur[w]] = @ + 1]
            /\ pc' = [pc EXCEPT ![w] = "poll"]
       ELSE /\ pc' = [pc EXCEPT ![w] = "drop"]
            /\ UNCHANGED <<future, stats, hist>>
    /\ UNCHANGED <<COUNTER, state, task_registry, queue_vars, timer_vars, clock,
                   notified, shutdown, cur, rng_state, signalling, caller_vars>>

\* poll returned Ready: store(Completed), tasks_completed (the future is dropped)
PollReady(w) ==
    /\ pc[w] = "poll"
    /\ state' = [state EXCEPT ![cur[w]] = "Completed"]
    /\ stats' = [stats EXCEPT !.tasks_completed = @ + 1]
    /\ pc' = [pc EXCEPT ![w] = "remove"]
    /\ UNCHANGED <<COUNTER, future, future_lock, task_registry, queue_vars, timer_vars,
                   clock, notified, shutdown, cur, rng_state, waker_vars,
                   caller_vars, hist>>

\* faulty variant: the worker re-enqueues the task itself, without a signal
PollPendingRequeue(w) ==
    /\ pc[w] = "poll"
    /\ future' = [future EXCEPT ![cur[w]] = "Some"]
    /\ state' = [state EXCEPT ![cur[w]] = "Pending"]
    /\ local_queue' = [local_queue EXCEPT ![w] = push_back(@, cur[w])]
    /\ pc' = [pc EXCEPT ![w] = "drop"]
    /\ UNCHANGED <<COUNTER, future_lock, task_registry, global_queue, timer_vars, clock,
                   notified, shutdown, stats, cur, rng_state, waker_vars,
                   caller_vars, hist>>
\* poll returned Pending: `*future_guard = Some(future)`, store(Waiting)
PollPending(w) ==
    /\ pc[w] = "poll"
    /\ future' = [future EXCEPT ![cur[w]] = "Some"]
    /\ state' = [state EXCEPT ![cur[w]] = "Waiting"]
    /\ pc' = [pc EXCEPT ![w] = "drop"]
    /\ UNCHANGED <<COUNTER, future_lock, task_registry, queue_vars, timer_vars, clock,
                   notified, shutdown, stats, cur, rng_state, waker_vars,
                   caller_vars, hist>>

\* task_registry.write().remove(&task.id), then the end of the match arm
RemoveFromRegistry(w) ==
    /\ pc[w] = "remove"
    /\ reg_readers = {}
    /\ task_registry' = task_registry \ {cur[w]}
    /\ future_lock' = [future_lock EXCEPT ![cur[w]] = NoWorker]
    /\ handles' = handles \ {WorkerHandle(w)}
    /\ cur' = [cur EXCEPT ![w] = NoTask]
    /\ pc' = [pc EXCEPT ![w] = "top"]
    /\ UNCHANGED <<COUNTER, state, future, queue_vars, timer_vars, clock, notified,
                   shutdown, stats, rng_state, signalling, caller_vars, hist>>

\* end of the `Some(task)` arm: future_guard, cx and waker are dropped
EndIteration(w) ==
    /\ pc[w] = "drop"
    /\ future_lock' = [future_lock EXCEPT ![cur[w]] = NoWorker]
    /\ handles' = handles \ {WorkerHandle(w)}
    /\ cur' = [cur EXCEPT ![w] = NoTask]
    /\ pc' = [pc EXCEPT ![w] = "top"]
    /\ UNCHANGED <<COUNTER, state, future, task_registry, queue_vars, timer_vars, clock,
                   notified, shutdown, stats, rng_state, signalling, caller_vars,
                   hist>>

(* ---- wakeup handles (create_waker) ---- *)
\* the per-task table's clone returns a handle on the static VTABLE with the same
\* data pointer; VTABLE's clone returns a handle on VTABLE with a null pointer
clone(h) ==
    IF h.vtable = "vtable"
    THEN [task |-> h.task, queue |-> h.queue, vtable |-> "VTABLE", owner |-> "user"]
    ELSE [task |-> NoTask, queue |-> NoWorker, vtable |-> "VTABLE", owner |-> "user"]

\* whether a signal through handle h attempts the CAS at all
Signals(h) == h.vtable = "vtable"

\* faulty variant: store(Pending) in place of the CAS
SignalStore(h) ==
    IF Signals(h)
    THEN /\ state' = [state EXCEPT ![h.task] = "Pending"]
         /\ signalling' = signalling \cup {[task |-> h.task, queue |-> h.queue]}
    ELSE UNCHANGED <<state, signalling>>
\* the CAS Waiting->Pending of wake / wake_by_ref through handle h
SignalCas(h) ==
    IF Signals(h) /\ CasOk(state, h.task, "Waiting")
    THEN /\ state' = [state EXCEPT ![h.task] = "Pending"]
         /\ signalling' = signalling \cup {[task |-> h.task, queue |-> h.queue]}
    ELSE UNCHANGED <<state, signalling>>

\* the history hs with the signal through h counted when its CAS succeeds
Signalled(h, hs) ==
    IF Signals(h) /\ CasOk(state, h.task, "Waiting")
    THEN [hs EXCEPT !.signals[h.task] = @ + 1]
    ELSE hs

\* Waker::clone on a live handle
CloneHandle(h) ==
    /\ h \in handles
    /\ clone(h) \notin handles
    /\ handles' = handles \cup {clone(h)}
    /\ UNCHANGED <<task_vars, task_registry, queue_vars, timer_vars, clock, notified,
                   shutdown, stats, worker_vars, signalling, caller_vars, hist>>

\* Waker::wake_by_ref: the CAS; the push follows in SignalPush
WakeByRef(h) ==
    /\ h \in handles
    /\ SignalCas(h)
    /\ hist' = Signalled(h, hist)
    /\ UNCHANGED <<COUNTER, future, future_lock, task_registry, queue_vars, timer_vars,
                   clock, notified, shutdown, stats, worker_vars, handles, caller_vars>>

\* Waker::wake, which consumes an owned handle
Wake(h) ==
    /\ h \in handles
    /\ h.owner = "user"
    /\ SignalCas(h)
    /\ handles' = handles \ {h}
    /\ hist' = Signalled(h, IF h.task # NoTask /\ state[h.task] = "Waiting"
                            THEN [hist EXCEPT !.stash_signalled = @ \cup {h.task}]
                            ELSE hist)
    /\ UNCHANGED <<COUNTER, future, future_lock, task_registry, queue_vars, timer_vars,
                   clock, notified, shutdown, stats, worker_vars, caller_vars>>

\* faulty variant: the push goes to the global queue
SignalPushGlobal(s) ==
    /\ s \in signalling
    /\ global_queue' = push_back(global_queue, s.task)
    /\ signalling' = signalling \ {s}
    /\ UNCHANGED <<task_vars, task_registry, local_queue, timer_vars, clock, notified,
                   shutdown, stats, worker_vars, handles, caller_vars, hist>>
\* `queue.push_back(task.clone())` after a successful CAS
SignalPush(s) ==
    /\ s \in signalling
    /\ local_queue' = [local_queue EXCEPT ![s.queue] = push_back(@, s.task)]
    /\ signalling' = signalling \ {s}
    /\ UNCHANGED <<task_vars, task_registry, global_queue, timer_vars, clock, notified,
                   shutdown, stats, worker_vars, handles, caller_vars, hist>>

(* ---- Runtime facade ---- *)
\* faulty variant: the task is created but not entered in the registry
NewTaskUnregistered(id) ==
    /\ COUNTER' = COUNTER + 1
    /\ state' = [state EXCEPT ![id] = "Pending"]
    /\ future' = [future EXCEPT ![id] = "Some"]
    /\ UNCHANGED task_registry
\* Task::new and task_registry.write().insert(id, task)
NewTask(id) ==
    /\ COUNTER' = COUNTER + 1
    /\ state' = [state EXCEPT ![id] = "Pending"]
    /\ future' = [future EXCEPT ![id] = "Some"]
    /\ task_registry' = task_registry \cup {id}

\* spawn / spawn_with_priority: registry insert, global_queue.push_back,
\* tasks_spawned, `*notified = true`, notify_one, and the return of the id
Spawn(c) ==
    /\ cpc[c] = "idle"
    /\ COUNTER < MaxTasks
    /\ reg_readers = {}
    /\ NewTask(COUNTER)
    /\ global_queue' = push_back(global_queue, COUNTER)
    /\ stats' = [stats EXCEPT !.tasks_spawned = @ + 1]
    /\ notified' = TRUE
    /\ issued' = issued \cup {COUNTER}
    /\ UNCHANGED <<future_lock, local_queue, timer_vars, clock, shutdown, worker_vars,
                   waker_vars, cpc, cid, ret, reg_readers, hist>>

\* spawn_delayed(delay, ..): registry insert and schedule(Instant::now() + delay, task)
SpawnDelayed(c, delay) ==
    /\ cpc[c] = "idle"
    /\ COUNTER < MaxTasks
    /\ reg_readers = {}
    /\ NewTask(COUNTER)
    /\ wheels' = schedule(wheels, current_tick, clock, <<clock + delay, COUNTER>>)
    /\ issued' = issued \cup {COUNTER}
    /\ UNCHANGED <<future_lock, queue_vars, current_tick, last_tick, clock, notified,
                   shutdown, stats, worker_vars, waker_vars, cpc, cid, ret, reg_readers,
                   hist>>

\* what a successful CAS of cancel is followed by: tasks_cancelled and `return true`
CancelSucceeds(c, id) ==
    /\ state' = [state EXCEPT ![id] = "Cancelled"]
    /\ stats' = [stats EXCEPT !.tasks_cancelled = @ + 1]
    /\ hist' = [hist EXCEPT !.cancel_true[id] = @ + 1]
    /\ ret' = [ret EXCEPT ![c] = "true"]
    /\ cpc' = [cpc EXCEPT ![c] = "idle"]

\* cancel(task_id): task_registry.read().get(&task_id) and
\* compare_exchange(Pending, Cancelled)
CancelCas1(c, id) ==
    /\ cpc[c] = "idle"
    /\ id \in issued
    /\ cid' = [cid EXCEPT ![c] = id]
    /\ IF id \notin task_registry
       THEN /\ ret' = [ret EXCEPT ![c] = "false"]
            /\ UNCHANGED <<state, stats, hist, cpc, reg_readers>>
       ELSE IF CasOk(state, id, "Pending")
       THEN /\ CancelSucceeds(c, id)
            /\ UNCHANGED reg_readers
       ELSE /\ cpc' = [cpc EXCEPT ![c] = "cancel_cas2"]
            /\ ret' = [ret EXCEPT ![c] = "none"]
            /\ reg_readers' = reg_readers \cup {c}
            /\ UNCHANGED <<state, stats, hist>>
    /\ UNCHANGED <<COUNTER, future, future_lock, task_registry, queue_vars, timer_vars,
                   clock, notified, shutdown, worker_vars, waker_vars, issued>>

\* faulty variant: a task found already Cancelled counts as cancelled by this call
CancelCas2Lenient(c) ==
    /\ cpc[c] = "cancel_cas2"
    /\ reg_readers' = reg_readers \ {c}
    /\ IF CasOk(state, cid[c], "Waiting") \/ state[cid[c]] = "Cancelled"
       THEN CancelSucceeds(c, cid[c])
       ELSE /\ cpc' = [cpc EXCEPT ![c] = "idle"]
            /\ ret' = [ret EXCEPT ![c] = "false"]
            /\ UNCHANGED <<state, stats, hist>>
    /\ UNCHANGED <<COUNTER, future, future_lock, task_registry, queue_vars, timer_vars,
                   clock, notified, shutdown, worker_vars, waker_vars, cid, issued>>
\* `|| compare_exchange(Waiting, Cancelled)`, and `false` when both fail
CancelCas2(c) ==
    /\ cpc[c] = "cancel_cas2"
    /\ reg_readers' = reg_readers \ {c}
    /\ IF CasOk(state, cid[c], "Waiting")
       THEN CancelSucceeds(c, cid[c])
       ELSE /\ cpc' = [cpc EXCEPT ![c] = "idle"]
            /\ ret' = [ret EXCEPT ![c] = "false"]
            /\ UNCHANGED <<state, stats, hist>>
    /\ UNCHANGED <<COUNTER, future, future_lock, task_registry, queue_vars, timer_vars,
                   clock, notified, shutdown, worker_vars, waker_vars, cid, issued>>

\* the passing of wall-clock time
Tick(limit) ==
    /\ clock < limit
    /\ clock' = clock + 1
    /\ UNCHANGED <<task_vars, task_registry, queue_vars, timer_vars, notified, shutdown,
                   stats, worker_vars, waker_vars, caller_vars, hist>>

\* one step of worker w
WorkerStep(w) ==
    \/ LoopTop(w) \/ Acquire(w) \/ ClaimTask(w) \/ TakeFuture(w) \/ PollReady(w)
    \/ PollPending(w) \/ RemoveFromRegistry(w) \/ EndIteration(w)

\* exploration bounds on the signals and on the owned handles
SignalBudget == stats.poll_count < MaxPolls
HandleBudget == Cardinality({g \in handles : g.owner = "user"}) < MaxHandles

\* The runtime with its callers; handles are signalled by reference only.
Next ==
    \/ \E w \in Workers : WorkerStep(w)
    \/ \E h \in handles : SignalBudget /\ WakeByRef(h)
    \/ \E s \in signalling : SignalPush(s)
    \/ \E c \in Clients :
          \/ Spawn(c) \/ CancelCas2(c)
          \/ \E d \in 0 .. MaxDelay : SpawnDelayed(c, d)
          \/ \E id \in Tasks : CancelCas1(c, id)
    \/ Tick(MaxTime)

Spec == Init /\ [][Next]_vars

\* The same runtime built with one worker.
NextSingle ==
    \/ \E w \in Workers : w \in DOMAIN pc /\ WorkerStep(w)
    \/ \E h \in handles : SignalBudget /\ WakeByRef(h)
    \/ \E s \in signalling : SignalPush(s)
    \/ \E c \in Clients :
          \/ Spawn(c) \/ CancelCas2(c)
          \/ \E d \in 0 .. MaxDelay : SpawnDelayed(c, d)
          \/ \E id \in Tasks : CancelCas1(c, id)
    \/ Tick(MaxTime)

SpecSingle == InitSingle /\ [][NextSingle]_vars

\* The runtime without delayed spawns, with owned (cloned) handles.
NextWaker ==
    \/ \E w \in Workers : WorkerStep(w)
    \/ \E h \in handles :
          \/ HandleBudget /\ CloneHandle(h)
          \/ SignalBudget /\ (WakeByRef(h) \/ Wake(h))
    \/ \E s \in signalling : SignalPush(s)
    \/ \E c \in Clients :
          \/ Spawn(c) \/ CancelCas2(c)
          \/ \E id \in Tasks : CancelCas1(c, id)

SpecWaker == Init /\ [][NextWaker]_vars

\* Delayed spawns only, over a longer time.
NextTimer ==
    \/ \E w \in Workers : WorkerStep(w)
    \/ \E c \in Clients : \E d \in 0 .. MaxDelayWheel : SpawnDelayed(c, d)
    \/ Tick(MaxTimeWheel)

SpecTimer == Init /\ [][NextTimer]_vars

\* Tasks that suspend at most once: a first poll either returns Ready or stashes
\* a clone of the handle it was given and returns Pending; a later poll returns
\* Ready.  The stash is signalled (consumed) once the task is Waiting.
Stash(w) == clone(WorkerHandle(w))
SuspendingPoll(w) ==
    /\ pc[w] = "poll"
    /\ \/ hist.polls[cur[w]] = 1 /\ CloneHandle(WorkerHandle(w))
       \/ hist.polls[cur[w]] = 1 /\ Stash(w) \in handles /\ PollPending(w)
       \/ Stash(w) \notin handles /\ PollReady(w)
SuspendingStep(w) ==
    \/ LoopTop(w) \/ Acquire(w) \/ ClaimTask(w) \/ TakeFuture(w) \/ SuspendingPoll(w)
    \/ RemoveFromRegistry(w) \/ EndIteration(w)
SignalStash(h) ==
    /\ h.task # NoTask
    /\ state[h.task] = "Waiting"
    /\ Wake(h)
NextSuspend ==
    \/ \E w \in Workers : SuspendingStep(w)
    \/ \E h \in handles : SignalStash(h) \/ (SignalBudget /\ WakeByRef(h))
    \/ \E s \in signalling : SignalPush(s)
    \/ \E c \in Clients : Spawn(c)

\* fair worker scheduling: every worker keeps taking steps, a signal whose CAS
\* succeeded completes its push, a stash whose task is Waiting is signalled
FairSuspend ==
    /\ \A w \in Workers : WF_vars(SuspendingStep(w))
    /\ WF_vars(\E s \in signalling : SignalPush(s))
    /\ WF_vars(\E h \in handles : SignalStash(h))

SpecSuspend == Init /\ [][NextSuspend]_vars /\ FairSuspend

\* A task whose first poll signals its own handle by reference (cx.waker()
\* .wake_by_ref()) and then returns Pending; its later polls return Ready.
RaceSignal(w) ==
    /\ pc[w] = "poll"
    /\ hist.polls[cur[w]] = 1
    /\ cur[w] \notin hist.raced
    /\ SignalCas(WorkerHandle(w))
    /\ hist' = [Signalled(WorkerHandle(w), hist) EXCEPT !.raced = @ \cup {cur[w]}]
    /\ UNCHANGED <<COUNTER, future, future_lock, task_registry, queue_vars, timer_vars,
                   clock, notified, shutdown, stats, worker_vars, handles, caller_vars>>
RacingPoll(w) ==
    /\ pc[w] = "poll"
    /\ \/ RaceSignal(w)
       \/ hist.polls[cur[w]] = 1 /\ cur[w] \in hist.raced /\ PollPending(w)
       \/ hist.polls[cur[w]] > 1 /\ PollReady(w)
RacingStep(w) ==
    \/ LoopTop(w) \/ Acquire(w) \/ ClaimTask(w) \/ TakeFuture(w) \/ RacingPoll(w)
    \/ RemoveFromRegistry(w) \/ EndIteration(w)
\* anyone who can still reach the handle may signal it later; nobody has to
NextRace ==
    \/ \E w \in Workers : RacingStep(w)
    \/ \E h \in handles : SignalBudget /\ WakeByRef(h)
    \/ \E s \in signalling : SignalPush(s)
    \/ \E c \in Clients : Spawn(c)

\* every worker thread keeps running, a signal whose CAS succeeded completes its push
FairRace ==
    /\ \A w \in Workers : WF_vars(RacingStep(w))
    /\ WF_vars(\E s \in signalling : SignalPush(s))

SpecRace == Init /\ [][NextRace]_vars /\ FairRace

(* ---- spawn and spawn_delayed, statement by statement ---- *)
\* `Task::new` and `task_registry.write().insert(id, task.clone())`, the common
\* beginning of spawn_with_priority and spawn_delayed
RegistryInsert(c) ==
    /\ cpc[c] = "idle"
    /\ COUNTER < MaxTasks
    /\ reg_readers = {}
    /\ NewTask(COUNTER)
    /\ cid' = [cid EXCEPT ![c] = COUNTER]
    /\ cpc' = [cpc EXCEPT ![c] = "inserted"]
    /\ UNCHANGED <<future_lock, queue_vars, timer_vars, clock, notified, shutdown, stats,
                   worker_vars, waker_vars, ret, issued, reg_readers, hist>>
\* the rest of spawn_with_priority: push_back, tasks_spawned, notify, return
SpawnPush(c) ==
    /\ cpc[c] = "inserted"
    /\ global_queue' = push_back(global_queue, cid[c])
    /\ stats' = [stats EXCEPT !.tasks_spawned = @ + 1]
    /\ notified' = TRUE
    /\ issued' = issued \cup {cid[c]}
    /\ cpc' = [cpc EXCEPT ![c] = "idle"]
    /\ UNCHANGED <<task_vars, task_registry, local_queue, timer_vars, clock, shutdown,
                   worker_vars, waker_vars, cid, ret, reg_readers, hist>>
\* the rest of spawn_delayed: schedule(Instant::now() + delay, task), return
SpawnSchedule(c, delay) ==
    /\ cpc[c] = "inserted"
    /\ wheels' = schedule(wheels, current_tick, clock, <<clock + delay, cid[c]>>)
    /\ issued' = issued \cup {cid[c]}
    /\ cpc' = [cpc EXCEPT ![c] = "idle"]
    /\ UNCHANGED <<task_vars, task_registry, queue_vars, current_tick, last_tick, clock,
                   notified, shutdown, stats, worker_vars, waker_vars, cid, ret,
                   reg_readers, hist>>

\* The runtime with the two statements of a spawn as separate steps (no cancel).
NextSpawn ==
    \/ \E w \in Workers : WorkerStep(w)
    \/ \E h \in handles : SignalBudget /\ WakeByRef(h)
    \/ \E s \in signalling : SignalPush(s)
    \/ \E c \in Clients :
          \/ RegistryInsert(c) \/ SpawnPush(c)
          \/ \E d \in 0 .. MaxDelay : SpawnSchedule(c, d)
    \/ Tick(MaxTime)

SpecSpawn == Init /\ [][NextSpawn]_vars

\* The runtime running tasks whose computation returns Ready on its first poll.
ReadyStep(w) ==
    \/ LoopTop(w) \/ Acquire(w) \/ ClaimTask(w) \/ TakeFuture(w) \/ PollReady(w)
    \/ RemoveFromRegistry(w)
NextReady ==
    \/ \E w \in Workers : ReadyStep(w)
    \/ \E h \in handles : WakeByRef(h)
    \/ \E c \in Clients : Spawn(c)

\* every worker thread keeps running
FairReady == \A w \in Workers : WF_vars(ReadyStep(w))

SpecReady == Init /\ [][NextReady]_vars /\ FairReady

(* ---- QueueEntry ---- *)
\* enum Priority, in the order of its discriminants (derive(PartialOrd, Ord))
Priorities == <<"Low", "Normal", "High", "Critical">>
Discriminant(p) == (CHOOSE i \in DOMAIN Priorities : Priorities[i] = p) - 1
\* Ord::cmp of two integers (discriminants, instants)
IntCmp(x, y) == IF x < y THEN "Less" ELSE IF x = y THEN "Equal" ELSE "Greater"
\* a QueueEntry: its task (id and priority) and scheduled_at; two entries of the
\* same task carry the task's priority
QueueEntries ==
    [task : Tasks, priority : {Priorities[i] : i \in DOMAIN Priorities},
     scheduled_at : 0 .. MaxTime]
\* PartialEq for QueueEntry: `self.task.id == other.task.id`
eq(a, b) == a.task = b.task
\* Ord for QueueEntry: priority.cmp, then `other.scheduled_at.cmp(&self.scheduled_at)`
cmp(a, b) ==
    IF IntCmp(Discriminant(a.priority), Discriminant(b.priority)) = "Equal"
    THEN IntCmp(b.scheduled_at, a.scheduled_at)
    ELSE IntCmp(Discriminant(a.priority), Discriminant(b.priority))
\* two entries are compared (as a BinaryHeap<QueueEntry> would on push or pop)
CompareEntries(a, b) ==
    /\ a.task = b.task => a.priority = b.priority
    /\ hist' = [hist EXCEPT !.compared =
                   {[left |-> a, right |-> b, ord |-> cmp(a, b), same |-> eq(a, b)]}]
    /\ UNCHANGED <<task_vars, task_registry, queue_vars, timer_vars, clock, notified,
                   shutdown, stats, worker_vars, waker_vars, caller_vars>>
NextOrder == \E a, b \in QueueEntries : CompareEntries(a, b)

SpecOrder == Init /\ [][NextOrder]_vars

(* ---- Runtime::shutdown ---- *)
\* `self.shutdown.store(true, SeqCst)`
ShutdownStore(c) ==
    /\ cpc[c] = "idle"
    /\ shutdown' = TRUE
    /\ cpc' = [cpc EXCEPT ![c] = "shutdown_notify"]
    /\ UNCHANGED <<task_vars, task_registry, queue_vars, timer_vars, clock, notified,
                   stats, worker_vars, waker_vars, cid, ret, issued, reg_readers, hist>>
\* `*notified = true; cvar.notify_all()`
ShutdownNotify(c) ==
    /\ cpc[c] = "shutdown_notify"
    /\ notified' = TRUE
    /\ cpc' = [cpc EXCEPT ![c] = "shutdown_join"]
    /\ UNCHANGED <<task_vars, task_registry, queue_vars, timer_vars, clock, shutdown,
                   stats, worker_vars, waker_vars, cid, ret, issued, reg_readers, hist>>
\* faulty variant: the handles are not taken, every pass joins a worker again
UnjoinedAll == DOMAIN pc
\* the workers whose handle is still Some: pc "joined" stands for a worker whose
\* thread was joined and whose handle was taken
Unjoined == {w \in DOMAIN pc : pc[w] # "joined"}
\* `for worker in &mut self.workers { if let Some(handle) = worker.handle.take()
\* { handle.join() } }`: one pass of the loop per step, the return after the last
ShutdownJoin(c) ==
    /\ cpc[c] = "shutdown_join"
    /\ IF Unjoined = {}
       THEN /\ cpc' = [cpc EXCEPT ![c] = "idle"]
            /\ hist' = [hist EXCEPT !.shutdowns = @ + 1]
            /\ UNCHANGED pc
       ELSE LET w == CHOOSE v \in Unjoined : \A u \in Unjoined : v <= u IN
            /\ pc[w] = "exited"
            /\ pc' = [pc EXCEPT ![w] = "joined"]
            /\ UNCHANGED <<cpc, hist>>
    /\ UNCHANGED <<task_vars, task_registry, queue_vars, timer_vars, clock, notified,
                   shutdown, stats, cur, rng_state, waker_vars, cid, ret, issued,
                   reg_readers>>
ShutdownStep(c) == ShutdownStore(c) \/ ShutdownNotify(c) \/ ShutdownJoin(c)

\* exploration bound on the shutdown() calls
ShutdownBudget == hist.shutdowns < MaxShutdowns
\* shutdown takes &mut self: no other call of the runtime overlaps it
NoShutdownCall == \A c \in Clients : cpc[c] \notin {"shutdown_notify", "shutdown_join"}

\* The runtime with immediate spawns and signals, shut down by its owner.
NextShutdown ==
    \/ \E w \in Workers : WorkerStep(w)
    \/ \E h \in handles : SignalBudget /\ WakeByRef(h)
    \/ \E s \in signalling : SignalPush(s)
    \/ \E c \in Clients : NoShutdownCall /\ Spawn(c)
    \/ \E c \in Clients :
          \/ ShutdownBudget /\ NoShutdownCall /\ ShutdownStore(c)
          \/ ShutdownNotify(c)
          \/ ShutdownJoin(c)

\* every worker thread keeps running (so every poll ends), a signal whose CAS
\* succeeded completes its push, a shutdown() call in progress goes on
FairShutdown ==
    /\ \A w \in Workers : WF_vars(WorkerStep(w))
    /\ WF_vars(\E s \in signalling : SignalPush(s))
    /\ WF_vars(\E c \in Clients : ShutdownNotify(c) \/ ShutdownJoin(c))

SpecShutdown == Init /\ [][NextShutdown]_vars /\ FairShutdown

\* The timer wheel on its own, as tests::test_timer_wheel drives it: schedule
\* and advance called directly while time passes.
\* delays that reach each placement of schedule(): deadline in the past, due at
\* once, level 0, level 1, level 2, and beyond the wheel's span (clamped)
WheelDelays ==
    {0 - 1, 0, TickDur, TickDur * Size0 + 1, TickDur * Size0 * Size1 + 1,
     TickDur * Size0 * Size1 * Size2 + 1}
WheelSchedule(delay) ==
    /\ COUNTER < MaxTasks
    /\ COUNTER' = COUNTER + 1
    /\ wheels' = schedule(wheels, current_tick, clock, <<clock + delay, COUNTER>>)
    /\ hist' = [hist EXCEPT !.far = IF delay >= TickDur * Size0 * Size1 * Size2
                                      THEN @ \cup {COUNTER} ELSE @]
    /\ UNCHANGED <<state, future, future_lock, task_registry, queue_vars, current_tick,
                   last_tick, clock, notified, shutdown, stats, worker_vars, waker_vars,
                   caller_vars>>
WheelAdvance ==
    LET r == advance(wheels, current_tick, last_tick, clock, <<>>) IN
    /\ wheels' = r.wheels
    /\ current_tick' = r.current_tick
    /\ last_tick' = r.last_tick
    /\ hist' = [hist EXCEPT !.returned = @ \o r.ready]
    /\ UNCHANGED <<task_vars, task_registry, queue_vars, clock, notified, shutdown,
                   stats, worker_vars, waker_vars, caller_vars>>
\* time passes between the calls; the caller lets at most MaxLag time units go
\* by without calling advance()
WheelPass ==
    /\ clock - last_tick < MaxLag
    /\ Tick(MaxTimeFar)
NextWheel ==
    \/ \E d \in WheelDelays : WheelSchedule(d)
    \/ WheelAdvance
    \/ WheelPass

\* time passes and advance() keeps being called: weak fairness of WheelPass and
\* of WheelAdvance, the latter written out with its enabling condition (a call
\* changes the wheel exactly when a tick has gone by since last_tick)
AdvanceEnabled == last_tick + TickDur <= clock
FairWheel ==
    /\ WF_vars(WheelPass)
    /\ ([]<>(~AdvanceEnabled) \/ []<><<WheelAdvance>>_vars)

SpecWheel == Init /\ [][NextWheel]_vars /\ FairWheel

(* ---- properties ---- *)
\* how often task t occurs in a queue, in the ready queues, in the timer wheel
Occurs(q, t) == Len(SelectSeq(q, LAMBDA x : x = t))
LocalQueues == Flatten([i \in 1 .. NumWorkers |-> local_queue[i - 1]])
ReadyQueues == global_queue \o LocalQueues
InWheel(t) == Len(SelectSeq(WheelEntries, LAMBDA e : e[2] = t))
Copies(t) == Occurs(ReadyQueues, t) + InWheel(t)
\* one step of a cancel call of caller c
CancelStep(c) == CancelCas2(c) \/ \E id \in Tasks : CancelCas1(c, id)

\* C1: a task starts in Pending, its state changes only along Pending->Running,
\* Running->Waiting, Running->Completed, Waiting->Pending, Pending->Cancelled
\* and Waiting->Cancelled, and Completed and Cancelled are never left.
Transitions ==
    {<<"Absent", "Pending">>, <<"Pending", "Running">>, <<"Running", "Waiting">>,
     <<"Running", "Completed">>, <<"Waiting", "Pending">>,
     <<"Pending", "Cancelled">>, <<"Waiting", "Cancelled">>}
C1_Lifecycle ==
    [][\A t \in Tasks : state'[t] # state[t] => <<state[t], state'[t]>> \in Transitions]_vars
\* a task completed by its second poll, after Running->Waiting->Pending->Running
C1_Witness == \E t \in Tasks : state[t] = "Completed" /\ hist.polls[t] = 2

\* C2: no two workers poll the same task at the same instant; the slot changes
\* only in the hands of the worker that holds the task and its slot lock, while
\* the task is Running.
C2_SlotStep(t) ==
    future'[t] # future[t] /\ state[t] # "Absent" =>
        /\ state[t] = "Running"
        /\ \E w \in Workers : cur[w] = t /\ future_lock'[t] = w /\ pc'[w] \in {"poll", "drop"}
C2_ExclusivePoll ==
    /\ [](\A v, w \in Workers : pc[v] = "poll" /\ pc[w] = "poll" /\ cur[v] = cur[w] => v = w)
    /\ [][\A t \in Tasks : C2_SlotStep(t)]_vars
\* a worker polls a task it stole while the other worker still holds the same
\* task from the previous poll
C2_Witness ==
    \E v, w \in Workers :
        /\ v # w /\ cur[v] = cur[w] /\ pc[v] = "drop" /\ pc[w] = "take"
        /\ stats.steal_count > 0

\* C3: once a cancel call has returned true for a task, the task is never polled
\* (its slot is never taken) afterwards, and no step of a cancel call changes the
\* state of a Running task.
C3_NoPollAfterCancel ==
    [][/\ \A t \in Tasks : state[t] = "Cancelled" \/ hist.cancel_true[t] > 0 =>
              hist.polls'[t] = hist.polls[t] /\ future'[t] = future[t]
       /\ \A c \in Clients : CancelStep(c) =>
              \A t \in Tasks : state[t] = "Running" => state'[t] = "Running"]_vars
\* a worker holds a delayed task that was cancelled in the wheel and then fired
C3_Witness ==
    \E w \in Workers :
        /\ pc[w] = "claim" /\ state[cur[w]] = "Cancelled"
        /\ stats.timer_fires > 0 /\ stats.tasks_spawned = 0

\* C4: a cancel call returns true exactly when its own CAS moved the task from
\* Pending or Waiting to Cancelled; otherwise it returns false and changes no task
\* state, queue, registry or counter.  At most one call per id returns true and
\* tasks_cancelled is the number of calls that returned true.
C4_CancelStep(c) ==
    LET id == cid'[c] IN
    /\ ret'[c] = "true" =>
          /\ state[id] \in {"Pending", "Waiting"}
          /\ state' = [state EXCEPT ![id] = "Cancelled"]
          /\ stats' = [stats EXCEPT !.tasks_cancelled = @ + 1]
          /\ hist.cancel_true[id] = 0
    /\ ret'[c] # "true" => UNCHANGED <<state, stats>>
    /\ cpc'[c] = "idle" /\ (id \notin task_registry
                            \/ state[id] \in {"Running", "Completed", "Cancelled"})
          => ret'[c] = "false"
    /\ UNCHANGED <<queue_vars, timer_vars, task_registry, future>>
C4_CancelResult ==
    /\ [](/\ \A t \in Tasks : hist.cancel_true[t] <= 1
          /\ stats.tasks_cancelled = Cardinality({t \in Tasks : hist.cancel_true[t] = 1}))
    /\ [][/\ \A c \in Clients : CancelStep(c) => C4_CancelStep(c)
          /\ stats'.tasks_cancelled # stats.tasks_cancelled =>
                 \E c \in Clients : CancelStep(c) /\ ret'[c] = "true"]_vars
\* a second cancel of an id returned false after the first one returned true
C4_Witness ==
    \E c \in Clients :
        /\ ret[c] = "false" /\ cpc[c] = "idle" /\ cid[c] # NoTask
        /\ hist.cancel_true[cid[c]] = 1 /\ state[cid[c]] = "Cancelled"

\* C5: a task that is spawned and cancelled before its first poll ends Cancelled,
\* is never polled, has left the registry once no queue, wheel slot or worker
\* holds it any more, and was counted once in tasks_cancelled.
Held(t) == \E w \in Workers : cur[w] = t
C5_CancelledLeavesRegistry ==
    \A t \in Tasks :
        hist.cancel_true[t] > 0 /\ hist.polls[t] = 0 /\ Copies(t) = 0 /\ ~Held(t) =>
            /\ state[t] = "Cancelled"
            /\ hist.cancel_true[t] = 1
            /\ t \notin task_registry

\* C6: at every quiescent point (no task Running, no signal in flight, no call
\* and no worker in the middle of handling a task),
\* tasks_spawned = tasks_completed + tasks_cancelled + size of the registry.
Quiescent ==
    /\ \A t \in Tasks : state[t] # "Running"
    /\ signalling = {}
    /\ \A c \in Clients : cpc[c] = "idle"
    /\ \A w \in Workers : cur[w] = NoTask
C6_Accounting ==
    Quiescent =>
        stats.tasks_spawned
            = stats.tasks_completed + stats.tasks_cancelled + Cardinality(task_registry)

\* C7: a signal whose CAS Waiting->Pending succeeds is followed by exactly one
\* push of the task, onto the local queue of the worker that ran the poll; a
\* signal whose CAS fails changes nothing; no task occurs twice over the ready
\* queues, the timer wheel and the pushes still to be made.
C7_SignalStep ==
    /\ \A t \in Tasks : state[t] = "Waiting" /\ state'[t] = "Pending" =>
          \E w \in Workers :
              /\ cur[w] = t /\ WorkerHandle(w) \in handles
              /\ signalling' = signalling \cup {[task |-> t, queue |-> w]}
              /\ [task |-> t, queue |-> w] \notin signalling
              /\ UNCHANGED queue_vars
    /\ \A s \in signalling : s \notin signalling' =>
          /\ local_queue' = [local_queue EXCEPT ![s.queue] = Append(@, s.task)]
          /\ signalling' = signalling \ {s}
          /\ global_queue' = global_queue
    /\ \A s \in signalling' : s \notin signalling =>
          state[s.task] = "Waiting" /\ state'[s.task] = "Pending"
C7_SignalEnqueuesOnce ==
    /\ [](\A t \in Tasks : Copies(t) + Cardinality({s \in signalling : s.task = t}) <= 1)
    /\ [][C7_SignalStep]_vars
\* a signalled task sits in the local queue of the worker that polled it, which
\* is not the queue of the worker that polls it next
C7_Witness ==
    \E t \in Tasks, w \in Workers :
        /\ hist.polls[t] = 1 /\ state[t] = "Pending"
        /\ Occurs(local_queue[w], t) = 1 /\ Copies(t) = 1
        /\ pc[w] \in {"top", "acquire"}

\* C8: signalling a clone of a task's handle signals the task as the original
\* handle would: a Waiting task becomes Pending and its push onto the captured
\* local queue is under way.
C8_CloneSignalsTask ==
    [][\A h \in handles :
          h.owner = "user" /\ h.task # NoTask /\ state[h.task] = "Waiting" /\ Wake(h) =>
              /\ state'[h.task] = "Pending"
              /\ [task |-> h.task, queue |-> h.queue] \in signalling']_vars

\* C9: under fair scheduling, a task whose stashed handle was signalled after
\* the task entered Waiting is polled a second time and completes.
C9_StashedSignalResumes ==
    \A t \in Tasks :
        (t \in hist.stash_signalled) ~> (hist.polls[t] = 2 /\ state[t] = "Completed")

\* C10: an entry leaves the timer wheel only at a clock value at or after its
\* deadline, which is the clock value of the spawn_delayed call plus the delay;
\* while it is in the wheel its task is in no ready queue, in no worker's hands
\* and has never been polled.
WheelEntrySet ==
    UNION {UNION {{wheels[l][s][i] : i \in DOMAIN wheels[l][s]} : s \in DOMAIN wheels[l]} :
           l \in Levels}
C10_Step ==
    /\ \A e \in WheelEntrySet : e \notin WheelEntrySet' =>
          e[1] <= clock /\ Occurs(LocalQueues', e[2]) = 1
    /\ COUNTER' # COUNTER =>
          \E c \in Clients, d \in 0 .. MaxDelayWheel :
              SpawnDelayed(c, d) /\ <<clock + d, COUNTER>> \in WheelEntrySet'
C10_NotBeforeDeadline ==
    /\ [](\A e \in WheelEntrySet :
             /\ hist.polls[e[2]] = 0 /\ ~Held(e[2])
             /\ Occurs(ReadyQueues, e[2]) = 0)
    /\ [][C10_Step]_vars
\* both delayed tasks have fired, the later one after a cascade from level 1, and
\* one of them has been polled
C10_Witness ==
    /\ stats.timer_fires = 2 /\ WheelEntries = <<>> /\ current_tick > Size0
    /\ \E t \in Tasks : hist.polls[t] = 1

\* C11: an entry with deadline D is returned by the first advance() call made at
\* a clock value >= D + T (one tick after the deadline), unless an earlier call
\* returned it.
C11_FiresWithinTick ==
    [][\A e \in WheelEntrySet :
          (\E w \in Workers : LoopTop(w)) /\ ~shutdown /\ e[1] + TickDur <= clock =>
              e \notin WheelEntrySet']_vars
\* C12: an entry given to schedule sits in exactly one slot of the wheel until one
\* advance() call returns it, once: re-scheduling and cascading neither lose nor
\* duplicate it, also when its delay exceeds the wheel's span; and while advance()
\* keeps being called as time passes, the entry is returned in the end.
WheelLateness == TickDur * Size0 * Size1
C12_OneSlot ==
    \A t \in Tasks :
        InWheel(t) + Occurs(hist.returned, t) = (IF t < COUNTER THEN 1 ELSE 0)
C12_EntryKept ==
    /\ []C12_OneSlot
    /\ [][\A t \in Tasks : Occurs(hist.returned, t) = 1 =>
                                Occurs(hist.returned', t) = 1]_vars
    /\ \A t \in Tasks :
          (\E e \in WheelEntrySet : e[2] = t /\ e[1] + WheelLateness <= MaxTimeFar)
              ~> (Occurs(hist.returned, t) = 1)
C12_Witness ==
    \E t \in hist.far : Occurs(hist.returned, t) = 1 /\ COUNTER = MaxTasks
\* C13: in a runtime of one worker steal_count stays 0, whatever is spawned,
\* delayed, suspended, signalled or cancelled.
C13_NoStealAlone == num_queues(local_queue) = 1 => stats.steal_count = 0
C13_Witness ==
    /\ num_queues(local_queue) = 1 /\ ~notified
    /\ COUNTER = MaxTasks /\ stats.poll_count > 1
    /\ stats.tasks_cancelled > 0 /\ stats.timer_fires > 0
\* C14: after shutdown() is called on a started runtime every worker leaves its
\* loop, is joined, and the call returns, whether the worker was idle or had a
\* non-empty queue (up to the exploration bound on the generator); a repeated
\* shutdown() joins no thread again and changes nothing of the runtime except the
\* `notified` flag of the condition variable, which it sets again.
ShutdownDone ==
    /\ \A w \in Workers : pc[w] = "joined"
    /\ \A c \in Clients : cpc[c] = "idle"
    /\ hist.shutdowns >= 1
ShutdownCalled == \E c \in Clients : cpc[c] = "shutdown_notify"
RepeatedShutdownStep == hist.shutdowns >= 1 /\ \E c \in Clients : ShutdownStep(c)
RuntimeState ==
    <<task_vars, task_registry, queue_vars, timer_vars, clock, shutdown, stats,
      worker_vars, waker_vars>>
C14_ShutdownJoinsAll ==
    /\ ShutdownCalled ~> (ShutdownDone \/ \E w \in Workers : RngExhausted(w))
    /\ [][RepeatedShutdownStep => UNCHANGED RuntimeState]_vars
C14_Witness ==
    /\ hist.shutdowns = MaxShutdowns /\ ShutdownDone
    /\ ReadyQueues # <<>> /\ stats.poll_count > 0
    /\ \A w \in Workers : ~RngExhausted(w)
\* C14 as stated: the repeated shutdown() changes no state at all
C14_RepeatedChangesNothing ==
    /\ ShutdownCalled ~> (ShutdownDone \/ \E w \in Workers : RngExhausted(w))
    /\ [][RepeatedShutdownStep => UNCHANGED <<RuntimeState, notified>>]_vars
\* C15: without shutdown, a task spawned by spawn whose computation returns Ready
\* on its first poll is polled exactly once, becomes Completed and leaves the
\* registry; after N spawns the runtime reaches tasks_completed >= N and
\* poll_count >= N, and once all spawns are made tasks_completed equals their
\* number with an empty registry, also when the workers were idle at spawn time.
C15_ReadyTasksComplete ==
    /\ [](\A t \in Tasks : hist.polls[t] <= 1)
    /\ \A t \in Tasks :
          (t \in task_registry)
              ~> (state[t] = "Completed" /\ t \notin task_registry /\ hist.polls[t] = 1)
    /\ \A n \in 1 .. MaxTasks :
          (stats.tasks_spawned = n)
              ~> (stats.tasks_completed >= n /\ stats.poll_count >= n)
    /\ (stats.tasks_spawned = MaxTasks)
          ~> [](/\ stats.tasks_completed = MaxTasks /\ task_registry = {}
                /\ stats.poll_count = MaxTasks)
C15_Witness ==
    /\ stats.tasks_spawned = MaxTasks /\ stats.tasks_completed = MaxTasks
    /\ task_registry = {} /\ stats.poll_count >= MaxTasks
    /\ \A t \in Tasks : hist.polls[t] = 1 /\ state[t] = "Completed"
\* C16: an id returned by spawn, spawn_with_priority or spawn_delayed is in the
\* registry until the task's poll has returned Ready; the registry insert comes
\* before the queue or timer insert, so every task in a ready queue, in the timer
\* wheel or in a worker's hands is in the registry, unless its poll has returned
\* Ready.
C16_RegisteredWhileLive ==
    /\ \A t \in issued : state[t] # "Completed" => t \in task_registry
    /\ \A t \in Tasks :
          Copies(t) > 0 \/ (Held(t) /\ state[t] # "Completed") => t \in task_registry
C16_Witness ==
    \E t, u \in Tasks :
        /\ t \in task_registry /\ t \notin issued /\ Copies(t) = 0
        /\ u \in issued /\ state[u] = "Completed" /\ u \notin task_registry
        /\ \E c \in Clients : cpc[c] = "inserted"
\* C17: every spawned task that no worker holds and that has no signal under way
\* is in exactly one situation: in the registry and in a ready queue, in the
\* registry and in the timer wheel, in the registry and Waiting, or out of the
\* registry.
Situations(t) ==
    {k \in 1 .. 4 :
        \/ k = 1 /\ t \in task_registry /\ Occurs(ReadyQueues, t) > 0
        \/ k = 2 /\ t \in task_registry /\ InWheel(t) > 0
        \/ k = 3 /\ t \in task_registry /\ state[t] = "Waiting"
        \/ k = 4 /\ t \notin task_registry}
InFlight(t) == Held(t) \/ \E s \in signalling : s.task = t
C17_OneSituation ==
    \A t \in Tasks :
        state[t] # "Absent" /\ ~InFlight(t) => Cardinality(Situations(t)) = 1
\* C18: a task is polled again only after a successful Waiting->Pending signal:
\* when a poll of a task begins, the successful signals for the task number one
\* less than its polls (one signal between two consecutive polls, before the
\* later one), so polls <= 1 + successful signals at all times.
C18_PollNeedsSignal ==
    /\ [](\A t \in Tasks : hist.polls[t] <= 1 + hist.signals[t])
    /\ [][\A t \in Tasks : hist.polls'[t] # hist.polls[t] =>
                                hist.polls'[t] = hist.signals[t] + 1]_vars
C18_Witness ==
    \E t \in Tasks : hist.polls[t] = 2 /\ hist.signals[t] = 1 /\ state[t] = "Running"
\* C19: a task signalled while it is still Running (from within the poll that
\* then returns Pending) becomes Pending again, is re-enqueued and is polled a
\* second time.
C19_RacingWakeupKept ==
    \A t \in Tasks : (t \in hist.raced) ~> (hist.polls[t] >= 2)
\* C20: schedule(deadline, task), with delta = floor((deadline - now) / T), adds
\* one entry to one slot and leaves current_tick and last_tick as they are: for
\* delta <= 0 the slot current_tick mod N0 of level 0; else, in the smallest
\* level k where delta divided by the sizes of the levels before k is below Nk,
\* the slot (current_tick + that quotient) mod Nk; and when no level fits, the
\* last slot of the last level.
RECURSIVE SizesBelow(_)
SizesBelow(k) == IF k = 1 THEN 1 ELSE Size(k - 1) * SizesBelow(k - 1)
Quotient(delta, k) == delta \div SizesBelow(k)
FittingLevels(delta) == {k \in Levels : Quotient(delta, k) < Size(k)}
ExpectedLevel(delta) ==
    IF delta <= 0 THEN 1
    ELSE IF FittingLevels(delta) = {} THEN Len(WheelSizes)
    ELSE CHOOSE k \in FittingLevels(delta) : \A j \in FittingLevels(delta) : k <= j
ExpectedSlot(delta) ==
    IF delta <= 0 THEN current_tick % Size0
    ELSE IF FittingLevels(delta) = {} THEN Size(Len(WheelSizes)) - 1
    ELSE (current_tick + Quotient(delta, ExpectedLevel(delta)))
             % Size(ExpectedLevel(delta))
C20_ScheduleStep ==
    COUNTER' # COUNTER =>
        \E d \in WheelDelays :
            /\ wheels' = [wheels EXCEPT ![ExpectedLevel(d \div TickDur)]
                                            [ExpectedSlot(d \div TickDur) + 1] =
                              Append(@, <<clock + d, COUNTER>>)]
            /\ UNCHANGED <<current_tick, last_tick>>
C20_SchedulePlacement == [][C20_ScheduleStep]_vars
\* an entry beyond the span sits in the last slot of the last level, one that
\* needed two divisions sits in level 2, both scheduled after the wheel had turned
C20_Witness ==
    /\ current_tick > Size0
    /\ \E e \in {wheels[Len(WheelSizes)][Size2][i] : i \in DOMAIN wheels[Len(WheelSizes)][Size2]} :
          e[2] \in hist.far /\ e[1] - clock >= TickDur * Size0 * Size1 * Size2
    /\ \E s \in 1 .. Size2 :
          \E e \in {wheels[Len(WheelSizes)][s][i] : i \in DOMAIN wheels[Len(WheelSizes)][s]} :
              e[2] \notin hist.far /\ e[1] - clock >= TickDur * Size0 * Size1
\* C21: in a tick step of advance() an entry of level k+1 is moved (re-scheduled
\* into another slot, or handed out) only when the rotation of level k completes,
\* that is when current_tick mod (N0 * ... * Nk) = 0; in every other step only
\* level 0's current slot is drained.
SlotEntries(w, l, s) == {w[l][s][i] : i \in DOMAIN w[l][s]}
C21_TickStep ==
    current_tick' = current_tick + 1 =>
        \A l \in Levels \ {1} : \A s \in 1 .. Size(l) :
            \A e \in SlotEntries(wheels, l, s) :
                e \notin SlotEntries(wheels', l, s) => current_tick' % SizesBelow(l) = 0
C21_CascadeAtRotation == [][C21_TickStep]_vars
\* C22: the QueueEntry ordering ranks (Greater) the entry of higher priority
\* first, among equal priorities the one scheduled earlier, among identical
\* (priority, instant) the one with the smaller TaskId; it is the total order
\* these three keys give, and two entries compare Equal only when they are
\* equal (same TaskId).
RanksFirst(a, b) ==
    \/ Discriminant(a.priority) > Discriminant(b.priority)
    \/ /\ a.priority = b.priority
       /\ \/ a.scheduled_at < b.scheduled_at
          \/ a.scheduled_at = b.scheduled_at /\ a.task < b.task
C22_EntryOrder ==
    \A r \in hist.compared :
        /\ (r.ord = "Greater") = RanksFirst(r.left, r.right)
        /\ (r.ord = "Less") = RanksFirst(r.right, r.left)
        /\ r.ord = "Equal" => r.same
\* C23: with two or more workers, a worker that enters the steal phase while a
\* task sits in another worker's local queue probes at least one victim other
\* than itself (worker 0 included); it never steals from its own queue and makes
\* at most num_workers probes.
RECURSIVE Probe(_, _, _)
\* the generator state of worker w at its k-th probe of a phase begun in state x
Probe(w, x, k) == IF k = 0 THEN x ELSE XorshiftOf(w, Probe(w, x, k - 1))
StealPhase(w) ==
    /\ Acquire(w) /\ local_queue[w] = <<>> /\ global_queue = <<>>
    /\ \E v \in DOMAIN local_queue : v # w /\ local_queue[v] # <<>>
C23_StealStep ==
    \A w \in Workers :
        StealPhase(w) =>
            /\ \E k \in 1 .. num_queues(local_queue) :
                  Target(Probe(w, rng_state[w], k), num_queues(local_queue)) # w
            /\ \E k \in 0 .. num_queues(local_queue) :
                  rng_state'[w] = Probe(w, rng_state[w], k)
            /\ local_queue'[w] = local_queue[w]
C23_EveryWorkerProbesOthers == [][C23_StealStep]_vars
====
